---- MODULE Spec2Model ----
(***************************************************************************)
(* Model of beetsplug/edit.py: the text round trip of library records      *)
(* (flatten / dump / editor / load / apply_data), the edit-confirm loop of  *)
(* edit_objects, the `beet edit` command and the interactive import hooks.  *)
(*                                                                         *)
(* Values are records [k, v]: k is the Python runtime kind of the value    *)
(* ("int", "float", "bool", "str", "bytes", "null") and v its text.        *)
(* A record of the library is [type, vals, dirty]; a flattened document is *)
(* a function from the field names it contains to values.                  *)
(*                                                                         *)
(* Spec is one operation of the plugin: one `beet edit` command, or one    *)
(* import with its hooks.  Sessions is any sequence of such operations on  *)
(* one plugin instance.  RoundTrip is flatten followed by apply_ on one    *)
(* record and one field subset.                                            *)
(***************************************************************************)
EXTENDS Integers, Sequences, FiniteSets, TLC

(* ---------------------------------------------------------------------- *)
(* Bounds                                                                  *)
(* ---------------------------------------------------------------------- *)
\* Largest number of items in an import task or matched by an edit query.
MaxItems == 2
\* Largest number of documents of one edited text that carry a field edit.
MaxEdits == 2

(* ---------------------------------------------------------------------- *)
(* Values                                                                  *)
(* ---------------------------------------------------------------------- *)
I(s) == [k |-> "int", v |-> s]
S(s) == [k |-> "str", v |-> s]
B(s) == [k |-> "bytes", v |-> s]
Fl(s) == [k |-> "float", v |-> s]
Bl(s) == [k |-> "bool", v |-> s]
None == [k |-> "null", v |-> ""]

Numerals == {"0", "1", "2", "3", "99"}

FloatNumerals == {"0.0", "1.0", "1.5"}

\* The number a value of a numeric kind stands for, as the text of the
\* integer when it is one: True is 1, False is 0, 1.0 is 1.
Num(value) ==
    CASE value.k = "bool" -> IF value.v = "True" THEN "1" ELSE "0"
      [] value.k = "float" /\ value.v = "1.0" -> "1"
      [] value.k = "float" /\ value.v = "0.0" -> "0"
      [] OTHER -> value.v

\* Python 2 equality of two field values: a byte string and a unicode
\* string with the same (ASCII) text are equal, numbers (int, float,
\* bool) are equal when they have the same value, other kinds never mix.
PyEq(a, b) ==
    \/ a = b
    \/ a.k \in {"str", "bytes"} /\ b.k \in {"str", "bytes"} /\ a.v = b.v
    \/ /\ a.k \in {"int", "float", "bool"}
       /\ b.k \in {"int", "float", "bool"}
       /\ Num(a) = Num(b)

\* unicode(value)
unicode(value) == IF value.k = "null" THEN "None" ELSE value.v

\* util.displayable_path(path)
displayable_path(p) == S(p.v)

(* ---------------------------------------------------------------------- *)
(* Field types of the record store                                         *)
(* ---------------------------------------------------------------------- *)
SAFE_TYPES == {"Float", "Integer", "Boolean"}

\* obj._type(key)
TypeOf(key) ==
    CASE key \in {"id", "track"} -> "Integer"
      [] key = "length" -> "Float"
      [] key = "comp" -> "Boolean"
      [] key = "path" -> "Path"
      [] OTHER -> "String"

\* isinstance(value, typ.model_type); bool is a subclass of int in Python.
IsInstanceOfModelType(typ, value) ==
    CASE typ = "Integer" -> value.k \in {"int", "bool"}
      [] typ = "Float" -> value.k = "float"
      [] typ = "Boolean" -> value.k = "bool"
      [] typ = "Path" -> value.k = "bytes"
      [] OTHER -> value.k = "str"

_safe_value(key, value) ==
    TypeOf(key) \in SAFE_TYPES /\ IsInstanceOfModelType(TypeOf(key), value)

\* typ.format(value): the always-string projection of a field.
FormatValue(typ, value) ==
    CASE typ = "Integer" -> IF value.k = "null" THEN S("0") ELSE S(value.v)
      [] typ = "Float" ->
            IF value.k = "float" THEN S(value.v)
            ELSE IF value.k \in {"int", "bool"} /\ Num(value) = "1"
            THEN S("1.0")
            ELSE S("0.0")
      [] typ = "Boolean" ->
            IF \/ value.k = "null"
               \/ value.k \in {"int", "float", "bool"} /\ Num(value) = "0"
               \/ value.k \in {"str", "bytes"} /\ value.v = ""
            THEN S("False")
            ELSE S("True")
      [] typ = "Path" -> displayable_path(value)
      [] OTHER -> IF value.k = "null" THEN S("") ELSE S(unicode(value))

\* typ.parse(string): the record's string-to-typed-value coercion.
ParseValue(typ, string) ==
    CASE typ = "Integer" -> IF string \in Numerals THEN I(string) ELSE I("0")
      [] typ = "Float" ->
            IF string \in FloatNumerals THEN Fl(string)
            ELSE IF string = "1" THEN Fl("1.0")
            ELSE Fl("0.0")
      [] typ = "Boolean" ->
            IF string \in {"True", "1"} THEN Bl("True") ELSE Bl("False")
      [] typ = "Path" -> B(string)
      [] OTHER -> S(string)

\* obj.formatted()[key]
formatted(obj, key) == FormatValue(TypeOf(key), obj.vals[key])

\* obj[key] = value: the dirty flag records the fields whose value changed.
SetItem(obj, key, value) ==
    [obj EXCEPT
       !.vals = [f \in DOMAIN obj.vals \cup {key} |->
                    IF f = key THEN value ELSE obj.vals[f]],
       !.dirty = IF key \in DOMAIN obj.vals /\ PyEq(obj.vals[key], value)
                 THEN obj.dirty ELSE obj.dirty \cup {key}]

\* obj.set_parse(key, string)
set_parse(obj, key, string) ==
    SetItem(obj, key, ParseValue(TypeOf(key), string))

(* ---------------------------------------------------------------------- *)
(* flatten / apply_                                                        *)
(* ---------------------------------------------------------------------- *)
\* The field filter is a set of names; NoFilter stands for `None`.
NoFilter == {}

\* flatten without the filter of lines 119-120.
flatten_without_filter(obj, fields) ==
    [key \in DOMAIN obj.vals |->
        IF _safe_value(key, obj.vals[key])
        THEN obj.vals[key]
        ELSE formatted(obj, key)]

flatten(obj, fields) ==
    LET d == [key \in DOMAIN obj.vals |->
                IF _safe_value(key, obj.vals[key])
                THEN obj.vals[key]
                ELSE formatted(obj, key)]
    IN IF fields # NoFilter
       THEN [k \in DOMAIN d \cap fields |-> d[k]]
       ELSE d

\* One iteration of the loop of apply_.
ApplyKey(obj, key, value) ==
    IF _safe_value(key, value)
    THEN SetItem(obj, key, value)
    ELSE set_parse(obj, key, unicode(value))

RECURSIVE ApplyKeys(_, _, _)
ApplyKeys(obj, data, keys) ==
    IF keys = {} THEN obj
    ELSE LET key == CHOOSE x \in keys : TRUE
         IN ApplyKeys(ApplyKey(obj, key, data[key]), data, keys \ {key})

apply_(obj, data) == ApplyKeys(obj, data, DOMAIN data)

(* ---------------------------------------------------------------------- *)
(* Serialization codec                                                     *)
(* ---------------------------------------------------------------------- *)
\* A text is what the temporary file holds.  `syntax` tells how the YAML
\* parser reads it, `docs` the documents it contains, and `layout` stands
\* for everything in the bytes that the parser does not report (spacing,
\* quoting, comments): layout 0 is the layout dump produces.
Text(syntax, docs, layout) ==
    [syntax |-> syntax, docs |-> docs, layout |-> layout]

dump(arg) == Text("ok", arg, 0)

\* No text has been read back from the temporary file yet.
NoText == Text("none", <<>>, 0)

\* load without the isinstance(d, dict) test of line 72.
load_without_mapping_test(s) ==
    IF s.syntax = "invalid" THEN [error |-> TRUE, out |-> <<>>]
    ELSE [error |-> FALSE, out |-> s.docs]

\* load(s): [error |-> TRUE] stands for a raised ParseError.
load(s) ==
    IF s.syntax = "invalid" THEN [error |-> TRUE, out |-> <<>>]
    ELSE IF s.syntax = "not_mapping" THEN [error |-> TRUE, out |-> <<>>]
    ELSE [error |-> FALSE, out |-> s.docs]

(* ---------------------------------------------------------------------- *)
(* Reconciliation engine                                                   *)
(* ---------------------------------------------------------------------- *)
\* config['ignore_fields'], default 'id path'
IgnoreFields == {"id", "path"}
\* config['itemfields'], default 'track title artist album'
ItemFieldsConfig == {"track", "title", "album"}
\* config['albumfields'], default 'album albumartist'
AlbumFieldsConfig == {"album", "albumartist"}

\* dict.get(key)
Get(d, key) == IF key \in DOMAIN d THEN d[key] ELSE None

\* self.ref_field_value(o), as set by _set_reference_field
ref_field_value(mode, o) ==
    IF mode = "id" THEN o.vals["id"] ELSE displayable_path(o.vals["path"])

\* self.obj_from_ref(d)
obj_from_ref(mode, d) ==
    IF mode = "id" THEN d["id"] ELSE displayable_path(d["path"])

Min(a, b) == IF a < b THEN a ELSE b

\* The keys of a dict comprehension {ref_field_value(o): ... for o in objs}.
RefKeys(mode, objs) ==
    {ref_field_value(mode, objs[i]) : i \in 1..Len(objs)}

\* Position in objs of the object a dict comprehension keeps under `val`:
\* a later object with the same key replaces an earlier one.
LastWithRef(mode, objs, val) ==
    CHOOSE i \in 1..Len(objs) :
        /\ ref_field_value(mode, objs[i]) = val
        /\ \A j \in (i+1)..Len(objs) : ref_field_value(mode, objs[j]) # val

\* Forbidden with an empty ignore_fields.
Forbidden_without_ignore_fields(old_dict, new_dict) == FALSE

\* The ignore-field test of one zipped pair.
Forbidden(old_dict, new_dict) ==
    \E key \in IgnoreFields : ~PyEq(Get(old_dict, key), Get(new_dict, key))

\* The loop of apply_data from pair i on.  `index` is obj_by_ref, built
\* from the objects as they are before the loop; it holds positions of
\* objs, which stand for the object references.
RECURSIVE ApplyPairs(_, _, _, _, _, _)
ApplyPairs(mode, index, objs, old_data, new_data, i) ==
    IF i > Min(Len(old_data), Len(new_data))
    THEN [error |-> FALSE, objs |-> objs]
    ELSE IF Forbidden(old_data[i], new_data[i])
    THEN ApplyPairs(mode, index, objs, old_data, new_data, i + 1)
    ELSE LET val == obj_from_ref(mode, old_data[i])
         IN IF val \notin DOMAIN index
            THEN [error |-> TRUE, objs |-> objs]
            ELSE ApplyPairs(mode, index,
                            [objs EXCEPT ![index[val]] =
                                apply_(objs[index[val]], new_data[i])],
                            old_data, new_data, i + 1)

\* apply_data with obj_by_ref built from the first object only.
apply_data_index_of_first_object(mode, objs, old_data, new_data) ==
    LET obj_by_ref == [val \in {ref_field_value(mode, objs[1])} |-> 1]
    IN ApplyPairs(mode, obj_by_ref, objs, old_data, new_data, 1)

apply_data(mode, objs, old_data, new_data) ==
    LET obj_by_ref == [val \in RefKeys(mode, objs) |->
                          LastWithRef(mode, objs, val)]
    IN ApplyPairs(mode, obj_by_ref, objs, old_data, new_data, 1)

(* ---------------------------------------------------------------------- *)
(* Collaborators: the record store, the diff display, the import task      *)
(* ---------------------------------------------------------------------- *)
NumStr == <<"1", "2", "3", "4">>
PathStr == <<"p1", "p2", "p3", "p4">>
TopDir == "top"

ItemKeys == {"id", "path", "album", "albumartist", "title", "track"}
AlbumKeys == {"id", "path", "album", "albumartist"}
\* Album.item_keys: the album-level fields an album shares with its items.
AlbumItemKeys == {"album", "albumartist"}

Record(type, vals) == [type |-> type, vals |-> vals, dirty |-> {}]

\* The tags of the i-th music file.  Files 1 and 2 disagree on
\* albumartist, files 1 and 3 agree on every album-level field.
FileVals(i) ==
    [key \in ItemKeys |->
        CASE key = "id" -> None
          [] key = "path" -> B(PathStr[i])
          [] key = "album" -> S("A")
          [] key = "albumartist" -> IF i = 2 THEN S("Y") ELSE S("X")
          [] key = "title" -> IF i = 1 THEN S("T") ELSE S("U")
          [] OTHER -> I(NumStr[i])]

\* The row of the i-th item of the library: its file's tags and an id.
LibItemVals(i) == [FileVals(i) EXCEPT !["id"] = I(NumStr[i])]

LibAlbumVals(i) ==
    [key \in AlbumKeys |->
        CASE key = "id" -> I(NumStr[i])
          [] key = "path" -> B(TopDir)
          [] key = "album" -> S("A")
          [] OTHER -> S("X")]

\* not obj.id
NoId(obj) == obj.vals["id"].k = "null" \/ obj.vals["id"] = I("0")

\* obj.read(): reload the record from its backing source.
read(obj, source) == [obj EXCEPT !.vals = source, !.dirty = {}]

\* Whether ui.show_model_changes(new, old) reports a difference.
show_model_changes(new, old) ==
    \E f \in DOMAIN new.vals \cup DOMAIN old.vals :
        ~PyEq(Get(new.vals, f), Get(old.vals, f))

\* item.update(values)
RECURSIVE update(_, _, _)
update(obj, values, keys) ==
    IF keys = {} THEN obj
    ELSE LET key == CHOOSE x \in keys : TRUE
         IN update(SetItem(obj, key, values[key]), values, keys \ {key})

\* task.apply_metadata(): force the chosen candidate's tags onto an item.
CandidateVals == [album |-> S("C"), albumartist |-> S("Z")]
apply_metadata(item) == update(item, CandidateVals, DOMAIN CandidateVals)

(* ---------------------------------------------------------------------- *)
(* FakeAlbum                                                               *)
(* ---------------------------------------------------------------------- *)
\* FakeAlbum.__init__(items, path)
FakeAlbum(items, path) ==
    Record("FakeAlbum",
           [key \in AlbumKeys |->
               IF key \in AlbumItemKeys THEN items[1].vals[key]
               ELSE IF key = "path" THEN displayable_path(path)
               ELSE None])

\* _apply_changes that updates the first item only.
_apply_changes_first_item_only(album, src_items) ==
    LET values == [key \in AlbumItemKeys |-> album.vals[key]]
    IN [i \in 1..Len(src_items) |->
           IF i = 1 THEN update(src_items[i], values, AlbumItemKeys)
           ELSE src_items[i]]

\* FakeAlbum._apply_changes(): the items after the propagation.
_apply_changes(album, src_items) ==
    LET values == [key \in AlbumItemKeys |-> album.vals[key]]
    IN [i \in 1..Len(src_items) |->
           update(src_items[i], values, AlbumItemKeys)]

(* ---------------------------------------------------------------------- *)
(* What the user can do in the editor                                      *)
(* ---------------------------------------------------------------------- *)
EditKinds == {"album", "title", "ref", "delref"}

\* One document after one kind of edit by the user.
EditDoc(mode, d, kind) ==
    CASE kind = "album" /\ "album" \in DOMAIN d ->
            [d EXCEPT !["album"] = S("B")]
      [] kind = "title" /\ "title" \in DOMAIN d ->
            [d EXCEPT !["title"] = S("V")]
      [] kind = "ref" /\ mode \in DOMAIN d ->
            [d EXCEPT ![mode] = IF mode = "id" THEN I("99") ELSE S("zz")]
      [] kind = "delref" ->
            [k \in DOMAIN d \ {mode} |-> d[k]]
      [] OTHER -> d

\* The orders in which the edited text can hold the m original documents:
\* as they were, the last or the first one deleted, reversed, and the
\* first one duplicated at the end.
Shapes(m) ==
    { [i \in 1..m |-> i],
      [i \in 1..(m-1) |-> i],
      [i \in 1..(m-1) |-> i + 1],
      [i \in 1..m |-> m + 1 - i],
      [i \in 1..(m+1) |-> IF i <= m THEN i ELSE 1] }

EditedTexts(mode, old) ==
    { Text("ok",
           [p \in 1..Len(shape) |->
               IF p \in DOMAIN kinds
               THEN EditDoc(mode, old[shape[p]], kinds[p])
               ELSE old[shape[p]]],
           0) :
        shape \in Shapes(Len(old)),
        kinds \in UNION { [P -> EditKinds] :
                            P \in { Q \in SUBSET (1..(Len(old) + 1)) :
                                      Cardinality(Q) <= MaxEdits } } }
    \cup { Text("ok", old, 1), Text("invalid", <<>>, 0),
           Text("not_mapping", <<>>, 0) }

(* ---------------------------------------------------------------------- *)
(* State                                                                   *)
(* ---------------------------------------------------------------------- *)
VARIABLES
    phase,            \* "start", "edit" (beet edit), "import", "exit";
                      \* "round_trip" when flatten and apply_ run alone
    reference_field,  \* self.reference_field: "unset", "id" or "path"
    lib,              \* the persisted library rows
    task,             \* the import task offered to the hooks
    op,               \* the operation in progress or last run
    pc,               \* where edit_objects, or the round trip, stands
    objs,             \* the batch: the in-memory records being edited
    backing,          \* per record of the batch, what read() reloads
    requested,        \* the field filters flatten was given: [item, album]
    old_data,         \* the flattened documents of the batch
    old_str,          \* the text first written to the temporary file
    tmp,              \* the temporary file: "none", "present", "removed"
    new_str,          \* the text read back in the current round
    new_data,         \* the documents parsed in the last round
    pre_objs,         \* the batch as it was when the last round began
    start_objs,       \* the batch as it was when edit_objects was entered
    entry_objs,       \* the records as they were when the operation began
    applied,          \* whether the last round called apply_data
    outcome,          \* how the last session ended
    ret,              \* what the import hook returned
    synced            \* positions of the batch handed to try_sync

vars == <<phase, reference_field, lib, task, op, pc, objs, backing,
          requested, old_data, old_str, tmp, new_str, new_data, pre_objs,
          start_objs, entry_objs, applied, outcome, ret, synced>>

NoTask == [items |-> <<>>, files |-> <<>>, toppath |-> B(TopDir),
           singleton |-> FALSE, candidates |-> FALSE, resolved |-> FALSE]

\* The number of music files the import tasks are made of.
PoolSize == Len(PathStr) - 1

Ascending(set) ==
    CHOOSE seq \in [1..Cardinality(set) -> set] :
        \A i, j \in 1..Cardinality(set) : i < j => seq[i] < seq[j]

\* The import tasks: file 1 alone, or from two to MaxItems of the music
\* files, in order.  The top path is the directory being imported, or
\* the file itself when a single file is imported; only a one-item task
\* can be a SingletonImportTask.
Tasks ==
    { [items |-> [i \in 1..Cardinality(set) |->
                     Record("Item", FileVals(Ascending(set)[i]))],
       files |-> [i \in 1..Cardinality(set) |-> FileVals(Ascending(set)[i])],
       toppath |-> top, singleton |-> single, candidates |-> cands,
       resolved |-> FALSE] :
        set \in { x \in SUBSET (1..PoolSize) :
                    Cardinality(x) \in 1..MaxItems /\
                    (Cardinality(x) = 1 => x = {1}) },
        top \in { B(TopDir) } \cup { B(PathStr[i]) : i \in 1..PoolSize },
        single \in BOOLEAN, cands \in BOOLEAN }

\* The tasks the importer builds: importing the single file F gives a
\* one-item task whose top path is F, the path of its item.
RealTask(t) ==
    /\ t.singleton => Len(t.items) = 1
    /\ t.toppath # B(TopDir) =>
           Len(t.items) = 1 /\ t.items[1].vals["path"] = t.toppath

\* No field filter has been given to flatten yet.
NoRequest == [item |-> NoFilter, album |-> NoFilter]

\* The library as it is before any command has run.
InitialLib ==
    [Item |-> [i \in 1..MaxItems |-> LibItemVals(i)],
     Album |-> [i \in 1..1 |-> LibAlbumVals(i)]]

Init ==
    /\ phase = "start"
    /\ reference_field = "unset"
    /\ lib = InitialLib
    /\ task = NoTask
    /\ op = "none"
    /\ pc = "idle"
    /\ objs = <<>>
    /\ backing = <<>>
    /\ requested = NoRequest
    /\ old_data = <<>>
    /\ old_str = dump(<<>>)
    /\ tmp = "none"
    /\ new_str = NoText
    /\ new_data = <<>>
    /\ pre_objs = <<>>
    /\ start_objs = <<>>
    /\ entry_objs = <<>>
    /\ applied = FALSE
    /\ outcome = "none"
    /\ ret = "none"
    /\ synced = {}

(* ---------------------------------------------------------------------- *)
(* EditPlugin                                                              *)
(* ---------------------------------------------------------------------- *)
\* _set_reference_field that sets the mode on the first call only.
_set_reference_field_first_call_only(current, field) ==
    IF current # "unset" THEN current
    ELSE IF field = "id" THEN "id"
    ELSE IF field = "path" THEN "path"
    ELSE current

\* The mode _set_reference_field(field) leaves in self.reference_field.
_set_reference_field(current, field) ==
    IF field = "id" THEN "id"
    ELSE IF field = "path" THEN "path"
    ELSE current

\* _get_fields without line 229, which appends the reference field.
_get_fields_without_reference_field(mode, album, extra) ==
    (IF album THEN AlbumFieldsConfig ELSE ItemFieldsConfig) \cup extra

\* _get_fields(album, extra)
_get_fields(mode, album, extra) ==
    (IF album THEN AlbumFieldsConfig ELSE ItemFieldsConfig)
        \cup extra \cup {mode}

\* The position of a library row from its id.
RowOf(obj) == CHOOSE i \in 1..Len(NumStr) : I(NumStr[i]) = obj.vals["id"]

\* save_changes without the `if ob._dirty` test of line 364.
save_changes_without_dirty_test(batch) == 1..Len(batch)

\* save_changes(objs): the positions of the batch handed to try_sync.
save_changes(batch) == { i \in 1..Len(batch) : batch[i].dirty # {} }

\* The library after try_sync has stored the records at `positions`.
try_sync(store, batch, positions) ==
    [type \in DOMAIN store |->
        [r \in DOMAIN store[type] |->
            IF \E i \in positions :
                   batch[i].type = type /\ RowOf(batch[i]) = r
            THEN batch[CHOOSE i \in positions :
                         batch[i].type = type /\ RowOf(batch[i]) = r].vals
            ELSE store[type][r]]]

\* line 390: singleton = isinstance(object, SingletonImportTask).  The
\* argument is the builtin `object`, not the task, so this is never true.
singleton(t) == FALSE


\* The items of the task among the batch of an import session: the batch
\* is the task's items, after the FakeAlbum when there is one.
BatchItems(batch) == IF singleton(task) THEN batch ELSE Tail(batch)

\* Return without the revert loop of lines 414-415.
Return_without_revert(success, batch, how) ==
    /\ pc' = "idle"
    /\ tmp' = "removed"
    /\ objs' = batch
    /\ outcome' = how
    /\ IF op = "edit"
       THEN /\ phase' = "exit"
            /\ synced' = IF success THEN save_changes(batch) ELSE {}
            /\ lib' = IF success
                      THEN try_sync(lib, batch, save_changes(batch))
                      ELSE lib
            /\ UNCHANGED <<task, ret>>
       ELSE /\ IF success
               THEN /\ task' = [task EXCEPT
                                  !.items = IF singleton(task)
                                            THEN BatchItems(batch)
                                            ELSE _apply_changes(
                                                     batch[1],
                                                     BatchItems(batch)),
                                  !.resolved = TRUE]
                    /\ ret' = "RETAG"
               ELSE /\ task' = [task EXCEPT !.items = BatchItems(batch)]
                    /\ ret' = "None"
            /\ UNCHANGED <<phase, lib, synced>>

\* edit_objects returns `success` with the batch as it is then, and the
\* caller (edit, lines 247-249, or importer_edit, lines 404-415) finishes.
Return(success, batch, how) ==
    /\ pc' = "idle"
    /\ tmp' = "removed"
    /\ objs' = batch
    /\ outcome' = how
    /\ IF op = "edit"
       THEN /\ phase' = "exit"
            /\ synced' = IF success THEN save_changes(batch) ELSE {}
            /\ lib' = IF success
                      THEN try_sync(lib, batch, save_changes(batch))
                      ELSE lib
            /\ UNCHANGED <<task, ret>>
       ELSE /\ IF success
               THEN /\ task' = [task EXCEPT
                                  !.items = IF singleton(task)
                                            THEN BatchItems(batch)
                                            ELSE _apply_changes(
                                                     batch[1],
                                                     BatchItems(batch)),
                                  !.resolved = TRUE]
                    /\ ret' = "RETAG"
               ELSE /\ task' = [task EXCEPT
                                  !.items =
                                     [i \in 1..Len(task.files) |->
                                         read(BatchItems(batch)[i],
                                              task.files[i])]]
                    /\ ret' = "None"
            /\ UNCHANGED <<phase, lib, synced>>

\* An exception leaves edit_objects and its caller; `file` tells whether
\* the `finally` clause of lines 327-328 ran.
Raise(batch, file) ==
    /\ pc' = "idle"
    /\ tmp' = file
    /\ objs' = batch
    /\ outcome' = "raised"
    /\ phase' = "exit"
    /\ task' = IF op = "edit" THEN task
               ELSE [task EXCEPT !.items = BatchItems(batch)]
    /\ UNCHANGED <<lib, ret, synced>>

\* edit_objects, lines 257-267: flatten the batch, create the temporary
\* file and write the dumped text.  `io` is what writing the file does.
StartSession(batch, sources, item_fields, album_fields, io) ==
    LET data == [i \in 1..Len(batch) |->
                    flatten(batch[i],
                            IF batch[i].type = "Item"
                            THEN item_fields ELSE album_fields)]
    IN /\ batch # <<>>
       /\ requested' = [item |-> item_fields, album |-> album_fields]
       /\ old_data' = data
       /\ old_str' = dump(data)
       /\ backing' = sources
       /\ start_objs' = batch
       /\ pre_objs' = batch
       /\ new_str' = NoText
       /\ new_data' = <<>>
       /\ applied' = FALSE
       /\ objs' = batch
       /\ ret' = "none"
       /\ synced' = {}
       /\ UNCHANGED lib
       /\ IF io = "ok"
          THEN /\ pc' = "editing"
               /\ tmp' = "present"
               /\ outcome' = "none"
          ELSE /\ pc' = "idle"
               /\ tmp' = "present"
               /\ outcome' = "raised"

WriteOutcomes == {"ok", "write_raises"}

\* _edit_command(lib, opts, args) up to the first editor invocation.
\* `rows` is what the query matches, `all` is --all, `extra` is --field.
EditCommand(album, rows, all, extra, io) ==
    LET type == IF album THEN "Album" ELSE "Item"
        mode == _set_reference_field(reference_field, "id")
        found == [i \in 1..Cardinality(rows) |->
                     Record(type, lib[type][Ascending(rows)[i]])]
        fields == IF all THEN NoFilter ELSE _get_fields(mode, album, extra)
    IN /\ phase = "start"
       /\ reference_field' = mode
       /\ op' = "edit"
       /\ entry_objs' = found
       /\ UNCHANGED task
       /\ IF found = <<>>
          THEN /\ phase' = "exit"
               /\ outcome' = "nothing_to_edit"
               /\ UNCHANGED <<lib, pc, objs, backing, requested,
                              old_data, old_str,
                              tmp, new_str, new_data, pre_objs,
                              start_objs, applied, ret, synced>>
          ELSE /\ phase' = IF io = "ok" THEN "edit" ELSE "exit"
               /\ StartSession(found,
                               [i \in 1..Len(found) |-> found[i].vals],
                               IF album THEN NoFilter ELSE fields,
                               IF album THEN fields ELSE NoFilter, io)

\* import_begin_listener(session), and the importer reading a task.
ImportBegin(t) ==
    /\ phase = "start"
    /\ phase' = "import"
    /\ reference_field' = _set_reference_field(reference_field, "path")
    /\ task' = t
    /\ UNCHANGED <<lib, op, pc, objs, backing, requested,
                   old_data, old_str, tmp,
                   new_str, new_data, pre_objs, start_objs,
                   entry_objs, applied, outcome, ret, synced>>

\* importer_edit(session, task) on the items as they are in `items`, up
\* to the first editor invocation.
ImporterEditFrom(name, items, io) ==
    LET item_fields == _get_fields(reference_field, FALSE, {})
        album == FakeAlbum(items, task.toppath)
        batch == IF singleton(task) THEN items ELSE <<album>> \o items
        album_fields == IF singleton(task) THEN NoFilter
                        ELSE _get_fields(reference_field, TRUE, {})
        sources == IF singleton(task) THEN task.files
                   ELSE <<album.vals>> \o task.files
    IN /\ phase = "import"
       /\ pc = "idle"
       /\ ~task.resolved
       /\ op' = name
       /\ entry_objs' = task.items
       /\ phase' = IF io = "ok" THEN "import" ELSE "exit"
       /\ task' = [task EXCEPT !.items = items]
       /\ UNCHANGED reference_field
       /\ StartSession(batch, sources,
                       item_fields, album_fields, io)

importer_edit(io) == ImporterEditFrom("importer_edit", task.items, io)

\* importer_edit_candidate(session, task): offered when the task has
\* candidates; applies the chosen one and runs importer_edit.
importer_edit_candidate(io) ==
    /\ task.candidates
    /\ ImporterEditFrom("importer_edit_candidate",
                        [i \in 1..Len(task.items) |->
                            apply_metadata(task.items[i])],
                        io)


\* Lines 296-298: the snapshots kept for the diff, as the positions of
\* the batch under each reference key.
SnapshotIndex(batch) ==
    [val \in RefKeys(reference_field, batch) |->
        LastWithRef(reference_field, batch, val)]

\* Lines 300-307: what the diff loop does with the batch `after`, given
\* the batch `before` apply_data.  "raise" stands for the NameError or
\* KeyError of line 304, or for show_model_changes not finding the row
\* of a record's id in the library.
DiffLoop(before, after) ==
    LET have_old == \A i \in 1..Len(before) : NoId(before[i])
        index == SnapshotIndex(before)
        missing(i) ==
            IF NoId(after[i])
            THEN ~have_old \/ ref_field_value(reference_field, after[i])
                                 \notin DOMAIN index
            ELSE \/ after[i].type \notin DOMAIN lib
                 \/ \A r \in DOMAIN lib[after[i].type] :
                        I(NumStr[r]) # after[i].vals["id"]
        obj_old(i) ==
            IF NoId(after[i])
            THEN before[index[ref_field_value(reference_field, after[i])]]
            ELSE Record(after[i].type, lib[after[i].type][RowOf(after[i])])
    IN IF \E i \in 1..Len(after) : missing(i) THEN "raise"
       ELSE IF \E i \in 1..Len(after) :
                   show_model_changes(after[i], obj_old(i))
       THEN "changed"
       ELSE "unchanged"

\* One pass of the loop of edit_objects from the editor's exit to the
\* next prompt or to the return (lines 273-310).  `text` is what the user
\* left in the temporary file.
EditorReturns(text) ==
    LET loaded == load(text)
        result == apply_data(reference_field, objs, old_data, loaded.out)
        diff == DiffLoop(objs, result.objs)
    IN /\ pc = "editing"
       /\ pre_objs' = objs
       /\ new_str' = text
       /\ UNCHANGED <<reference_field, op, backing, requested,
                      old_data, old_str,
                      start_objs, entry_objs>>
       /\ IF text = old_str
          THEN /\ new_data' = <<>>
               /\ applied' = FALSE
               /\ Return(FALSE, objs, "no_changes")
          ELSE IF loaded.error
          THEN /\ pc' = "parse_prompt"
               /\ new_data' = <<>>
               /\ applied' = FALSE
               /\ UNCHANGED <<phase, lib, task, objs, tmp, outcome, ret,
                              synced>>
          ELSE /\ new_data' = loaded.out
               /\ applied' = TRUE
               /\ IF result.error
                  THEN Raise(result.objs, "removed")
                  ELSE IF diff = "raise"
                  THEN Raise(result.objs, "removed")
                  ELSE IF diff = "unchanged"
                  THEN Return(FALSE, result.objs, "nothing_to_apply")
                  ELSE /\ pc' = "confirm"
                       /\ objs' = result.objs
                       /\ UNCHANGED <<phase, lib, task, tmp, outcome, ret,
                                      synced>>

\* Line 273: the editor command cannot be run and subprocess.call raises.
EditorRaises ==
    /\ pc = "editing"
    /\ Raise(objs, "removed")
    /\ UNCHANGED <<reference_field, op, backing, requested, old_data, old_str,
                   new_str, new_data, pre_objs, start_objs, entry_objs,
                   applied>>

\* Lines 288-291: the answer to "Edit again to fix?".
AnswerParsePrompt(again) ==
    /\ pc = "parse_prompt"
    /\ UNCHANGED <<reference_field, op, backing, requested, old_data, old_str,
                   new_data, pre_objs, start_objs, entry_objs, applied>>
    /\ IF again
       THEN /\ pc' = "editing"
            /\ new_str' = NoText
            /\ UNCHANGED <<phase, lib, task, objs, tmp, outcome, ret,
                           synced>>
       ELSE /\ UNCHANGED new_str
            /\ Return(FALSE, objs, "declined")

\* Confirm without the obj.read() loop of lines 322-323.
Confirm_without_reload(choice) ==
    LET reloaded == objs
    IN /\ pc = "confirm"
       /\ UNCHANGED <<reference_field, op, backing, requested,
                      old_data, old_str,
                      start_objs, entry_objs>>
       /\ IF choice = "a"
          THEN /\ UNCHANGED <<new_str, new_data, pre_objs, applied>>
               /\ Return(TRUE, objs, "apply")
          ELSE IF choice = "c"
          THEN /\ UNCHANGED <<new_str, new_data, pre_objs, applied>>
               /\ Return(FALSE, objs, "cancel")
          ELSE /\ pc' = "editing"
               /\ objs' = reloaded
               /\ pre_objs' = reloaded
               /\ new_str' = NoText
               /\ new_data' = <<>>
               /\ applied' = FALSE
               /\ UNCHANGED <<phase, lib, task, tmp, outcome, ret, synced>>

\* Lines 313-324: the choice at the confirmation prompt.
Confirm(choice) ==
    LET reloaded == [i \in 1..Len(objs) |-> read(objs[i], backing[i])]
    IN /\ pc = "confirm"
       /\ UNCHANGED <<reference_field, op, backing, requested,
                      old_data, old_str,
                      start_objs, entry_objs>>
       /\ IF choice = "a"
          THEN /\ UNCHANGED <<new_str, new_data, pre_objs, applied>>
               /\ Return(TRUE, objs, "apply")
          ELSE IF choice = "c"
          THEN /\ UNCHANGED <<new_str, new_data, pre_objs, applied>>
               /\ Return(FALSE, objs, "cancel")
          ELSE /\ pc' = "editing"
               /\ objs' = reloaded
               /\ pre_objs' = reloaded
               /\ new_str' = NoText
               /\ new_data' = <<>>
               /\ applied' = FALSE
               /\ UNCHANGED <<phase, lib, task, tmp, outcome, ret, synced>>

Next ==
    \/ \E album \in BOOLEAN, all \in BOOLEAN, io \in WriteOutcomes,
          extra \in {{}, {"albumartist"}} :
          \E rows \in SUBSET (IF album THEN {1} ELSE 1..MaxItems) :
             EditCommand(album, rows, all, extra, io)
    \/ \E t \in Tasks : RealTask(t) /\ ImportBegin(t)
    \/ \E io \in WriteOutcomes : importer_edit(io)
    \/ \E io \in WriteOutcomes : importer_edit_candidate(io)
    \/ /\ pc = "editing"
       /\ \E text \in EditedTexts(reference_field, old_data) :
             EditorReturns(text)
    \/ EditorRaises
    \/ \E again \in BOOLEAN : AnswerParsePrompt(again)
    \/ \E choice \in {"a", "c", "e"} : Confirm(choice)

Spec == Init /\ [][Next]_vars

(* ---------------------------------------------------------------------- *)
(* Operations in sequence on one plugin instance                           *)
(* ---------------------------------------------------------------------- *)
\* The command has returned, or the import session has ended, and the
\* plugin instance is given its next operation: the locals of the
\* operation are gone, the library and self.reference_field remain.
NextOperation ==
    /\ pc = "idle"
    /\ phase \in {"import", "exit"}
    /\ outcome # "raised"
    /\ phase' = "start"
    /\ task' = NoTask
    /\ op' = "none"
    /\ objs' = <<>>
    /\ backing' = <<>>
    /\ requested' = NoRequest
    /\ old_data' = <<>>
    /\ old_str' = dump(<<>>)
    /\ tmp' = "none"
    /\ new_str' = NoText
    /\ new_data' = <<>>
    /\ pre_objs' = <<>>
    /\ start_objs' = <<>>
    /\ entry_objs' = <<>>
    /\ applied' = FALSE
    /\ outcome' = "none"
    /\ ret' = "none"
    /\ synced' = {}
    /\ UNCHANGED <<reference_field, lib, pc>>

\* Edit commands on the first item of the library and imports of one
\* music file, in any order.
SessionsNext ==
    \/ \E rows \in SUBSET {1}, io \in WriteOutcomes :
          EditCommand(FALSE, rows, FALSE, {}, io)
    \/ \E t \in Tasks : RealTask(t) /\ Len(t.items) = 1 /\ ImportBegin(t)
    \/ \E io \in WriteOutcomes : importer_edit(io)
    \/ \E io \in WriteOutcomes : importer_edit_candidate(io)
    \/ /\ pc = "editing"
       /\ \E text \in EditedTexts(reference_field, old_data) :
             EditorReturns(text)
    \/ EditorRaises
    \/ \E again \in BOOLEAN : AnswerParsePrompt(again)
    \/ \E choice \in {"a", "c", "e"} : Confirm(choice)
    \/ NextOperation

Sessions == Init /\ [][SessionsNext]_vars

(* ---------------------------------------------------------------------- *)
(* flatten and apply_ on one record                                        *)
(* ---------------------------------------------------------------------- *)
\* A field of each declared type: Integer, Float, Boolean, String, Path.
SampleKeys == {"track", "length", "comp", "title", "path"}

\* Values of each runtime kind.
SampleValues ==
    {I("1"), I("0"), Fl("1.5"), Bl("True"), S("T"), B("p1"), None}

\* An item whose fields hold a value of their declared type.
SampleItem ==
    Record("Item",
           [key \in SampleKeys |->
               CASE key = "track" -> I("1")
                 [] key = "length" -> Fl("1.5")
                 [] key = "comp" -> Bl("True")
                 [] key = "title" -> S("T")
                 [] OTHER -> B("p1")])

\* The records the functions are tried on: the sample item with any
\* value in any one of its fields.
SampleRecords ==
    { [SampleItem EXCEPT !.vals[key] = value] :
        key \in SampleKeys, value \in SampleValues }

\* One record R and one field subset F, before flatten is called.
RoundTripInit ==
    /\ phase = "round_trip"
    /\ reference_field = "unset"
    /\ lib = InitialLib
    /\ task = NoTask
    /\ op = "none"
    /\ pc = "idle"
    /\ \E R \in SampleRecords : objs = <<R>>
    /\ backing = <<>>
    /\ \E F \in SUBSET SampleKeys :
          requested = [item |-> F, album |-> NoFilter]
    /\ old_data = <<>>
    /\ old_str = dump(<<>>)
    /\ tmp = "none"
    /\ new_str = NoText
    /\ new_data = <<>>
    /\ pre_objs = <<>>
    /\ start_objs = <<>>
    /\ entry_objs = <<>>
    /\ applied = FALSE
    /\ outcome = "none"
    /\ ret = "none"
    /\ synced = {}

\* old_data = [flatten(R, F)]
Flatten ==
    /\ phase = "round_trip"
    /\ pc = "idle"
    /\ pc' = "flattened"
    /\ old_data' = <<flatten(objs[1], requested.item)>>
    /\ UNCHANGED <<phase, reference_field, lib, task, op, objs, backing,
                   requested, old_str, tmp, new_str, new_data, pre_objs,
                   start_objs, entry_objs, applied, outcome, ret, synced>>

\* apply_(R, flatten(R, F)); pre_objs keeps R as it was.
Apply ==
    /\ phase = "round_trip"
    /\ pc = "flattened"
    /\ pc' = "applied"
    /\ pre_objs' = objs
    /\ objs' = <<apply_(objs[1], old_data[1])>>
    /\ UNCHANGED <<phase, reference_field, lib, task, op, backing,
                   requested, old_data, old_str, tmp, new_str, new_data,
                   start_objs, entry_objs, applied, outcome, ret, synced>>

RoundTripNext == Flatten \/ Apply

RoundTrip == RoundTripInit /\ [][RoundTripNext]_vars


(* ---------------------------------------------------------------------- *)
(* Properties                                                              *)
(* ---------------------------------------------------------------------- *)
\* The positions that zip(old_data, new_data) pairs in the last round.
Paired == 1..Min(Len(old_data), Len(new_data))

\* A round has called apply_data and apply_data has returned.
Reconciled == applied /\ outcome # "raised"

\* C1: in apply_data, a pair whose ignore-set fields differ between the
\* old and the new document changes no field of its record, and every
\* other pair of the batch is applied to its record.
C1_IgnoreProtection ==
    Reconciled =>
        \A i \in Paired :
            IF Forbidden(old_data[i], new_data[i])
            THEN objs[i].vals = pre_objs[i].vals
            ELSE objs[i] = apply_(pre_objs[i], new_data[i])


\* The values of a sequence of records, without their dirty flags.
Vals(batch) == [i \in 1..Len(batch) |-> batch[i].vals]

\* C2: a round that reads back a text identical to the text first written
\* ends the session in failure without calling apply_data, and the
\* records have the values they had when edit_objects was entered.
C2_NoEditNoMutation ==
    outcome = "no_changes" =>
        /\ ~applied
        /\ ret # "RETAG"
        /\ synced = {}
        /\ Vals(objs) = Vals(start_objs)

\* C3: once the temporary file has been created, edit_objects never
\* finishes, by a return or by an exception, with the file still present.
C3_TempFileRemoved == pc = "idle" => tmp # "present"

\* The records that exist once the operation has returned: the rows of
\* the library for the edit command, whose objects are local to it, and
\* the items of the task for the import hooks.
RecordsAfter ==
    IF op = "edit"
    THEN [i \in 1..Len(entry_objs) |->
             lib[entry_objs[i].type][RowOf(entry_objs[i])]]
    ELSE Vals(task.items)

C5_PersistOnlyDirtyAfterApply ==
    op = "edit" =>
        /\ synced # {} => outcome = "apply"
        /\ \A i \in synced : objs[i].dirty # {}
        /\ outcome # "apply" => lib = InitialLib

C5_Witness ==
    /\ op = "edit"
    /\ outcome = "apply"
    /\ synced # {}
    /\ \E i \in 1..Len(objs) : i \notin synced
    /\ lib # InitialLib

\* The last round edited nothing but the album field of the aggregate,
\* from its old value to "B".
OnlyAggregateAlbumEdited ==
    /\ Len(old_data) >= 1
    /\ objs[1].type = "FakeAlbum"
    /\ old_data[1]["album"] # S("B")
    /\ new_data = [old_data EXCEPT ![1]["album"] = S("B")]

\* C6: in the import edit hook, when the user edits only the aggregate's
\* album field to B and accepts, every item's album is B afterwards and
\* no other field of any item differs from its value before the session.
C6_AggregatePropagation ==
    (op = "importer_edit" /\ outcome = "apply" /\ OnlyAggregateAlbumEdited)
    => \A i \in 1..Len(task.items) :
          \A f \in ItemKeys :
             task.items[i].vals[f] =
                IF f = "album" THEN S("B") ELSE entry_objs[i].vals[f]

\* C7: the import edit hook puts a synthetic aggregate at the head of the
\* batch exactly when the task is not a singleton task.
C7_AggregateIffNotSingleton ==
    (op \in {"importer_edit", "importer_edit_candidate"} /\ objs # <<>>)
    => (objs[1].type = "FakeAlbum" <=> ~task.singleton)

\* The session of an import hook has ended with one of its outcomes.
HookReturned ==
    /\ op \in {"importer_edit", "importer_edit_candidate"}
    /\ pc = "idle"
    /\ outcome \in {"no_changes", "declined", "nothing_to_apply", "cancel",
                    "apply"}

\* C8: the import hook returns RETAG exactly when the session succeeded,
\* and then the items carry the aggregate's shared fields; on every other
\* outcome it returns no action and every item is as its backing source.
C8_RetagIffSuccess ==
    HookReturned =>
        /\ ret = "RETAG" <=> outcome = "apply"
        /\ outcome = "apply" =>
              /\ task.resolved
              /\ objs[1].type = "FakeAlbum" =>
                    \A i \in 1..Len(task.items) : \A k \in AlbumItemKeys :
                       task.items[i].vals[k] = objs[1].vals[k]
        /\ outcome # "apply" =>
              /\ ret = "None"
              /\ Vals(task.items) = task.files

C8_Witness ==
    /\ HookReturned
    /\ outcome = "apply"
    /\ ret = "RETAG"
    /\ \E i \in 1..Len(task.items) : \E k \in AlbumItemKeys :
          task.items[i].vals[k] # task.files[i][k]

\* C9: when the edited text has another number of documents than the
\* batch, apply_data raises no error, pairs the first min(m, n) positions
\* and leaves unchanged every record past the paired positions.
C9_CountMismatch ==
    (applied /\ Len(new_data) # Len(old_data)) =>
        /\ outcome # "raised"
        /\ \A i \in 1..Len(objs) : i \notin Paired => objs[i] = pre_objs[i]

\* The text read back in this round does not parse.
Unparseable(text) == text.syntax \in {"invalid", "not_mapping"}

\* C10: a text that does not parse never ends edit_objects by an error:
\* the user is asked whether to edit again, yes goes back to the editor
\* on the same temporary file, no returns failure, and in either case
\* the round has not called apply_data nor changed a record.
C10_ParseErrorRecovered ==
    [][ /\ (pc = "editing" /\ Unparseable(new_str')) =>
              /\ pc' = "parse_prompt"
              /\ tmp' = "present"
              /\ outcome' = "none"
              /\ ~applied'
              /\ objs' = objs
        /\ pc = "parse_prompt" =>
              /\ ~applied'
              /\ objs' = objs
              /\ \/ pc' = "editing" /\ tmp' = "present"
                    /\ old_str' = old_str /\ outcome' = "none"
                 \/ pc' = "idle" /\ outcome' = "declined"
                    /\ ret' # "RETAG" /\ synced' = {}
      ]_vars

C10_Witness ==
    /\ outcome = "declined"
    /\ Unparseable(new_str)
    /\ Vals(objs) = Vals(start_objs)

\* C11: whatever field subset was requested (the configured defaults, an
\* extra --field, or all fields), every flattened document of the batch
\* of a session contains the reference field of the current mode.
C11_ReferenceFieldFlattened ==
    old_data # <<>> =>
        /\ reference_field \in {"id", "path"}
        /\ Len(old_data) = Len(start_objs)
        /\ \A i \in 1..Len(old_data) : reference_field \in DOMAIN old_data[i]

C11_Witness ==
    /\ pc = "editing"
    /\ objs[1].type = "FakeAlbum"
    /\ DOMAIN old_data[1] # DOMAIN objs[1].vals
    /\ \A i \in 1..Len(old_data) : "path" \in DOMAIN old_data[i]

\* The fields of R that flatten(R, F) is asked for.
Requested(R, F) ==
    IF F = NoFilter THEN DOMAIN R.vals ELSE DOMAIN R.vals \cap F

\* The string formatting and parsing of the field are inverse on value.
FormatParseInverse(key, value) ==
    ParseValue(TypeOf(key), FormatValue(TypeOf(key), value).v) = value

\* C12: when formatting and parsing are inverse on the unsafe fields
\* that are flattened, apply_(R, flatten(R, F)) leaves every field of R
\* in F with its value and touches no field of R outside F.
C12_FlattenApplyRoundTrip ==
    (phase = "round_trip" /\ pc = "applied") =>
        LET R == pre_objs[1]
            F == requested.item
        IN (\A key \in Requested(R, F) :
               \/ _safe_value(key, R.vals[key])
               \/ FormatParseInverse(key, R.vals[key]))
           => /\ DOMAIN objs[1].vals = DOMAIN R.vals
              /\ \A key \in DOMAIN R.vals : objs[1].vals[key] = R.vals[key]
              /\ objs[1].dirty = R.dirty

C12_Witness ==
    /\ phase = "round_trip"
    /\ pc = "applied"
    /\ objs[1].vals = pre_objs[1].vals
    /\ \E key \in Requested(pre_objs[1], requested.item) :
          ~_safe_value(key, pre_objs[1].vals[key])
    /\ \E key \in DOMAIN objs[1].vals
                     \ Requested(pre_objs[1], requested.item) :
          /\ ~_safe_value(key, objs[1].vals[key])
          /\ ~FormatParseInverse(key, objs[1].vals[key])

\* The runtime kind that is the representation of a declared type.
ExactKind(typ) ==
    CASE typ = "Float" -> "float"
      [] typ = "Integer" -> "int"
      [] typ = "Boolean" -> "bool"
      [] OTHER -> "none"

\* C13: _safe_value is true exactly when the declared type of the key is
\* Float, Integer or Boolean and the runtime kind of the value is float,
\* int or bool respectively.
C13_SafeValueExact ==
    (phase = "round_trip" /\ pc = "flattened") =>
        \A key \in DOMAIN objs[1].vals :
            _safe_value(key, objs[1].vals[key])
            <=> /\ TypeOf(key) \in SAFE_TYPES
                /\ objs[1].vals[key].k = ExactKind(TypeOf(key))

\* C14: whatever operations the plugin instance ran before, the mode is
\* id whenever edit_objects and apply_data run for the edit command and
\* path whenever they run for an import hook.
C14_ModeOfTheOperation ==
    (pc # "idle" \/ applied) =>
        /\ op = "edit" => reference_field = "id"
        /\ op \in {"importer_edit", "importer_edit_candidate"}
              => reference_field = "path"

C14_Witness ==
    /\ lib # InitialLib
    /\ op = "importer_edit"
    /\ pc = "confirm"
    /\ reference_field = "path"

\* Two batches hold equal values, by the equality of Python.
SameValues(a, b) ==
    /\ Len(a) = Len(b)
    /\ \A i \in 1..Len(a) :
          /\ DOMAIN a[i].vals = DOMAIN b[i].vals
          /\ \A f \in DOMAIN a[i].vals : PyEq(a[i].vals[f], b[i].vals[f])

\* C15: when a text that differs from the original and parses has been
\* applied and no record differs from what it was before apply_data, the
\* session ends in failure as "no changes to apply": it does not stop at
\* the confirmation prompt and never ends in APPLY.
C15_NoChangeNoPrompt ==
    (applied /\ outcome # "raised" /\ SameValues(objs, pre_objs)) =>
        /\ pc = "idle"
        /\ outcome = "nothing_to_apply"
        /\ ret # "RETAG"
        /\ synced = {}

\* C16: edit-again at the confirmation prompt goes back to the editor
\* with every record of the batch reloaded from its backing source, and
\* a session that ends in APPLY leaves every record as apply_data makes
\* it from the last text and the batch as it was when the session began
\* or as edit-again reloaded it.
C16_EditAgainDiscardsRound ==
    [][ /\ (pc = "confirm" /\ pc' = "editing") =>
              /\ Vals(objs') = backing
              /\ \A i \in 1..Len(objs') : objs'[i].dirty = {}
              /\ tmp' = "present"
        /\ (pc = "confirm" /\ outcome' = "apply") =>
              /\ objs' = apply_data(reference_field, pre_objs,
                                    old_data, new_data).objs
              /\ \/ pre_objs = start_objs
                 \/ /\ Vals(pre_objs) = backing
                    /\ \A i \in 1..Len(pre_objs) : pre_objs[i].dirty = {}
      ]_vars

C16_Witness ==
    /\ outcome = "apply"
    /\ op = "importer_edit_candidate"
    /\ Vals(pre_objs) = backing
    /\ pre_objs # start_objs
    /\ objs # pre_objs

\* No two records of the batch have the same reference key.
UniqueRefs(batch) ==
    \A i, j \in 1..Len(batch) :
        ref_field_value(reference_field, batch[i]) =
            ref_field_value(reference_field, batch[j]) => i = j

\* C17: after apply_data every record of the batch has the reference key
\* it had before, and the snapshot kept under that key for the diff,
\* when snapshots are kept, is the snapshot of that record.
C17_ReferenceKeyStable ==
    Reconciled =>
        \A i \in 1..Len(objs) :
            /\ ref_field_value(reference_field, objs[i]) =
                   ref_field_value(reference_field, pre_objs[i])
            /\ (\A j \in 1..Len(pre_objs) : NoId(pre_objs[j])) =>
                   SnapshotIndex(pre_objs)[
                       ref_field_value(reference_field, objs[i])] = i

\* C18: in every batch passed to edit_objects no two records have the
\* same reference key, the FakeAlbum included, so the index of
\* apply_data has one entry for each record of the batch.
C18_UniqueReferenceKeys ==
    start_objs # <<>> =>
        /\ UniqueRefs(start_objs)
        /\ Cardinality(RefKeys(reference_field, start_objs)) =
               Len(start_objs)

\* C19: with unique reference keys in the batch, every record that
\* apply_data changed was given a new document whose reference field
\* holds that record's own reference key, whatever the order and the
\* number of the documents of the edited text.
C19_NoMisattribution ==
    (Reconciled /\ UniqueRefs(pre_objs)) =>
        \A j \in 1..Len(objs) :
            objs[j] # pre_objs[j] =>
                \E i \in Paired :
                    /\ reference_field \in DOMAIN new_data[i]
                    /\ PyEq(obj_from_ref(reference_field, new_data[i]),
                            ref_field_value(reference_field, pre_objs[j]))
                    /\ objs[j] = apply_(pre_objs[j], new_data[i])

C19_Witness ==
    /\ Reconciled
    /\ UniqueRefs(pre_objs)
    /\ Len(new_data) = Len(old_data)
    /\ Len(objs) >= 2
    /\ \E i \in Paired :
          /\ old_data[i][reference_field] # old_data[1][reference_field]
          /\ Get(new_data[i], reference_field) = old_data[1][reference_field]
    /\ \E j \in 1..Len(objs) : objs[j] # pre_objs[j]

\* C20: whatever the user did to a text that parses, every key that
\* apply_data looks up is the reference value of an old flattened
\* document and is in the index built from the batch, so the lookup of
\* line 357 raises no error.
C20_LookupNeverMisses ==
    applied =>
        /\ \A i \in Paired :
              /\ reference_field \in DOMAIN old_data[i]
              /\ obj_from_ref(reference_field, old_data[i])
                    \in RefKeys(reference_field, pre_objs)
        /\ ~apply_data(reference_field, pre_objs, old_data, new_data).error

C20_Witness ==
    /\ applied
    /\ Len(new_data) # Len(old_data)
    /\ \E i \in Paired :
          Get(new_data[i], reference_field) # old_data[i][reference_field]
    /\ \E i \in Paired : ~Forbidden(old_data[i], new_data[i])
    /\ outcome = "apply"

====
